---- MODULE Spec2Model ----
(***************************************************************************)
(* Model of label_studio/core/utils/security.py: the helpers that mask     *)
(* sensitive values, sanitize values for logging and build safe error      *)
(* messages.  The module is stateless; the state of the model is one call  *)
(* of one of its functions: the function, its arguments and what the call  *)
(* returned or raised.                                                     *)
(***************************************************************************)
EXTENDS Integers, Sequences, FiniteSets, TLC

(***************************************************************************)
(* Characters.  A Python str is a sequence of characters.  A printable     *)
(* ASCII character is the one-character string; the three control          *)
(* characters the module handles are named.                                *)
(***************************************************************************)
\* '\n' (code point 10)
LF == "LF"
\* '\r' (code point 13)
CR == "CR"
\* '\x1B' (code point 27)
ESC == "ESC"
\* the grave accent (code point 96), which a TLA+ string cannot hold
BACKTICK == "BACKTICK"

\* The printable ASCII characters in code-point order, 32 (' ') to 126 ('~').
Printable ==
    <<" ", "!", "\"", "#", "$", "%", "&", "'", "(", ")", "*", "+", ",",
      "-", ".", "/", "0", "1", "2", "3", "4", "5", "6", "7", "8", "9", ":",
      ";", "<", "=", ">", "?", "@", "A", "B", "C", "D", "E", "F", "G", "H",
      "I", "J", "K", "L", "M", "N", "O", "P", "Q", "R", "S", "T", "U", "V",
      "W", "X", "Y", "Z", "[", "\\", "]", "^", "_", BACKTICK, "a", "b",
      "c", "d", "e", "f", "g", "h", "i", "j", "k", "l", "m", "n", "o", "p",
      "q", "r", "s", "t", "u", "v", "w", "x", "y", "z", "{", "|", "}", "~">>

Chars == {Printable[i] : i \in 1..Len(Printable)} \cup {LF, CR, ESC}

\* ord(c)
Ord(c) ==
    CASE c = LF -> 10
      [] c = CR -> 13
      [] c = ESC -> 27
      [] OTHER -> 31 + (CHOOSE i \in 1..Len(Printable) : Printable[i] = c)

\* chr(n) for a printable code point
Chr(n) == Printable[n - 31]

\* The characters whose code point lies in lo..hi (a regex range lo-hi).
CharRange(lo, hi) == {c \in Chars : Ord(c) >= Ord(lo) /\ Ord(c) <= Ord(hi)}

UpperCaseLetters == CharRange("A", "Z")
LowerCaseLetters == CharRange("a", "z")

\* str.lower() and str.upper() on one ASCII character
LowerChar(c) == IF c \in UpperCaseLetters THEN Chr(Ord(c) + 32) ELSE c
UpperChar(c) == IF c \in LowerCaseLetters THEN Chr(Ord(c) - 32) ELSE c

\* str.lower(), str.upper()
str_lower(s) == [i \in 1..Len(s) |-> LowerChar(s[i])]
str_upper(s) == [i \in 1..Len(s) |-> UpperChar(s[i])]

(***************************************************************************)
(* The module's constants.                                                 *)
(***************************************************************************)
SENSITIVE_FIELDS == {
    \* 'password'
    <<"p", "a", "s", "s", "w", "o", "r", "d">>,
    \* 'token'
    <<"t", "o", "k", "e", "n">>,
    \* 'api_key'
    <<"a", "p", "i", "_", "k", "e", "y">>,
    \* 'apikey'
    <<"a", "p", "i", "k", "e", "y">>,
    \* 'secret'
    <<"s", "e", "c", "r", "e", "t">>,
    \* 'credential'
    <<"c", "r", "e", "d", "e", "n", "t", "i", "a", "l">>,
    \* 'auth'
    <<"a", "u", "t", "h">>,
    \* 'authorization'
    <<"a", "u", "t", "h", "o", "r", "i", "z", "a", "t", "i", "o", "n">>,
    \* 'access_token'
    <<"a", "c", "c", "e", "s", "s", "_", "t", "o", "k", "e", "n">>,
    \* 'refresh_token'
    <<"r", "e", "f", "r", "e", "s", "h", "_", "t", "o", "k", "e", "n">>,
    \* 'private_key'
    <<"p", "r", "i", "v", "a", "t", "e", "_", "k", "e", "y">>,
    \* 'secret_key'
    <<"s", "e", "c", "r", "e", "t", "_", "k", "e", "y">>
}

\* 'ConnectionError'
ConnectionError ==
    <<"C", "o", "n", "n", "e", "c", "t", "i", "o", "n", "E", "r", "r", "o",
      "r">>
\* 'TimeoutError'
TimeoutError ==
    <<"T", "i", "m", "e", "o", "u", "t", "E", "r", "r", "o", "r">>
\* 'PermissionError'
PermissionError ==
    <<"P", "e", "r", "m", "i", "s", "s", "i", "o", "n", "E", "r", "r", "o",
      "r">>
\* 'FileNotFoundError'
FileNotFoundError ==
    <<"F", "i", "l", "e", "N", "o", "t", "F", "o", "u", "n", "d", "E", "r",
      "r", "o", "r">>
\* 'ValidationError'
ValidationError ==
    <<"V", "a", "l", "i", "d", "a", "t", "i", "o", "n", "E", "r", "r", "o",
      "r">>
\* 'AuthenticationError'
AuthenticationError ==
    <<"A", "u", "t", "h", "e", "n", "t", "i", "c", "a", "t", "i", "o", "n",
      "E", "r", "r", "o", "r">>
\* 'ValueError', a kind the table does not list
ValueError ==
    <<"V", "a", "l", "u", "e", "E", "r", "r", "o", "r">>
\* 'RuntimeError', a kind the table does not list
RuntimeError ==
    <<"R", "u", "n", "t", "i", "m", "e", "E", "r", "r", "o", "r">>

\* The safe_messages table of get_safe_exception_message.
safe_messages ==
    \* 'ConnectionError': 'Unable to connect to the external service.'
       (ConnectionError :>
        <<"U", "n", "a", "b", "l", "e", " ", "t", "o", " ", "c", "o", "n",
          "n", "e", "c", "t", " ", "t", "o", " ", "t", "h", "e", " ", "e",
          "x", "t", "e", "r", "n", "a", "l", " ", "s", "e", "r", "v", "i",
          "c", "e", ".">>)
    \* 'TimeoutError': 'The operation timed out.'
    @@ (TimeoutError :>
        <<"T", "h", "e", " ", "o", "p", "e", "r", "a", "t", "i", "o", "n",
          " ", "t", "i", "m", "e", "d", " ", "o", "u", "t", ".">>)
    \* 'PermissionError': 'Permission denied.'
    @@ (PermissionError :>
        <<"P", "e", "r", "m", "i", "s", "s", "i", "o", "n", " ", "d", "e",
          "n", "i", "e", "d", ".">>)
    \* 'FileNotFoundError': 'The requested file was not found.'
    @@ (FileNotFoundError :>
        <<"T", "h", "e", " ", "r", "e", "q", "u", "e", "s", "t", "e", "d",
          " ", "f", "i", "l", "e", " ", "w", "a", "s", " ", "n", "o", "t",
          " ", "f", "o", "u", "n", "d", ".">>)
    \* 'ValidationError': 'The provided data is invalid.'
    @@ (ValidationError :>
        <<"T", "h", "e", " ", "p", "r", "o", "v", "i", "d", "e", "d", " ",
          "d", "a", "t", "a", " ", "i", "s", " ", "i", "n", "v", "a", "l",
          "i", "d", ".">>)
    \* 'AuthenticationError': 'Authentication failed.'
    @@ (AuthenticationError :>
        <<"A", "u", "t", "h", "e", "n", "t", "i", "c", "a", "t", "i", "o",
          "n", " ", "f", "a", "i", "l", "e", "d", ".">>)

\* 'An error occurred (' ... '). Please try again or contact support.'
GENERIC_WITH_TYPE_HEAD ==
    <<"A", "n", " ", "e", "r", "r", "o", "r", " ", "o", "c", "c", "u", "r",
      "r", "e", "d", " ", "(">>
GENERIC_WITH_TYPE_TAIL ==
    <<")", ".", " ", "P", "l", "e", "a", "s", "e", " ", "t", "r", "y", " ",
      "a", "g", "a", "i", "n", " ", "o", "r", " ", "c", "o", "n", "t", "a",
      "c", "t", " ", "s", "u", "p", "p", "o", "r", "t", ".">>
\* 'An error occurred. Please try again or contact support.'
GENERIC_MESSAGE ==
    <<"A", "n", " ", "e", "r", "r", "o", "r", " ", "o", "c", "c", "u", "r",
      "r", "e", "d", ".", " ", "P", "l", "e", "a", "s", "e", " ", "t", "r",
      "y", " ", "a", "g", "a", "i", "n", " ", "o", "r", " ", "c", "o", "n",
      "t", "a", "c", "t", " ", "s", "u", "p", "p", "o", "r", "t", ".">>
\* 'An internal error occurred. Please contact support if the issue persists.'
DEFAULT_DETAIL ==
    <<"A", "n", " ", "i", "n", "t", "e", "r", "n", "a", "l", " ", "e", "r",
      "r", "o", "r", " ", "o", "c", "c", "u", "r", "r", "e", "d", ".", " ",
      "P", "l", "e", "a", "s", "e", " ", "c", "o", "n", "t", "a", "c", "t",
      " ", "s", "u", "p", "p", "o", "r", "t", " ", "i", "f", " ", "t", "h",
      "e", " ", "i", "s", "s", "u", "e", " ", "p", "e", "r", "s", "i", "s",
      "t", "s", ".">>
\* '****'
MASKED ==
    <<"*", "*", "*", "*">>
\* 'None'
NONE_TEXT ==
    <<"N", "o", "n", "e">>
\* '...[truncated]'
TRUNCATED_SUFFIX ==
    <<".", ".", ".", "[", "t", "r", "u", "n", "c", "a", "t", "e", "d", "]">>
\* the type names of the non-exception values: 'NoneType', 'int', 'str'
NONETYPE_NAME ==
    <<"N", "o", "n", "e", "T", "y", "p", "e">>
INT_NAME ==
    <<"i", "n", "t">>
STR_NAME ==
    <<"s", "t", "r">>
\* the default of max_length
DEFAULT_MAX_LENGTH == 1000
\* the default of visible_chars
DEFAULT_VISIBLE_CHARS == 4

(***************************************************************************)
(* Python values.  A value is None, an int, a str or an exception; an      *)
(* exception has a kind (the name of its class) and a message.             *)
(***************************************************************************)
None == [tag |-> "none", n |-> 0, s |-> <<>>, kind |-> <<>>]
IntV(n) == [tag |-> "int", n |-> n, s |-> <<>>, kind |-> <<>>]
StrV(s) == [tag |-> "str", n |-> 0, s |-> s, kind |-> <<>>]
ExcV(kind, msg) == [tag |-> "exc", n |-> 0, s |-> msg, kind |-> kind]

\* What a call gives: the exception it raises (raised, "" when it returns),
\* or the value it returns: a str, a bool, or a dict of the one key 'detail'.
ReturnStr(s) ==
    [raised |-> "", type |-> "str", str |-> s, bool |-> FALSE, detail |-> None]
ReturnBool(b) ==
    [raised |-> "", type |-> "bool", str |-> <<>>, bool |-> b, detail |-> None]
ReturnDict(d) ==
    [raised |-> "", type |-> "dict", str |-> <<>>, bool |-> FALSE, detail |-> d]
Raise(e) ==
    [raised |-> e, type |-> "", str |-> <<>>, bool |-> FALSE, detail |-> None]

\* bool(value): None, 0 and '' are falsy; an exception is truthy.
Truthy(v) ==
    CASE v.tag = "none" -> FALSE
      [] v.tag = "int" -> v.n # 0
      [] v.tag = "str" -> v.s # <<>>
      [] OTHER -> TRUE

\* The decimal digits of n >= 0.
RECURSIVE Digits(_)
Digits(n) ==
    IF n < 10 THEN <<Chr(Ord("0") + n)>>
    ELSE Digits(n \div 10) \o <<Chr(Ord("0") + (n % 10))>>

\* str(value) of a value that is not None
py_str(v) ==
    CASE v.tag = "int" -> IF v.n < 0 THEN <<"-">> \o Digits(-v.n) ELSE Digits(v.n)
      [] v.tag = "none" -> NONE_TEXT
      [] OTHER -> v.s

\* type(value).__name__
TypeName(v) ==
    CASE v.tag = "none" -> NONETYPE_NAME
      [] v.tag = "int" -> INT_NAME
      [] v.tag = "str" -> STR_NAME
      [] OTHER -> v.kind

\* s[start:]
SliceFrom(s, start) ==
    LET from == IF start < 0 THEN (IF Len(s) + start < 0 THEN 0 ELSE Len(s) + start)
                ELSE (IF start > Len(s) THEN Len(s) ELSE start)
    IN  SubSeq(s, from + 1, Len(s))

\* s[:stop]
SliceTo(s, stop) ==
    LET to == IF stop < 0 THEN (IF Len(s) + stop < 0 THEN 0 ELSE Len(s) + stop)
              ELSE (IF stop > Len(s) THEN Len(s) ELSE stop)
    IN  SubSeq(s, 1, to)

\* c * n: n copies of the character c, none when n <= 0
Repeat(c, n) == [i \in 1..n |-> c]

\* needle in haystack
Contains(haystack, needle) ==
    \E i \in 1..(Len(haystack) - Len(needle) + 1) :
        SubSeq(haystack, i, i + Len(needle) - 1) = needle

\* s.replace(old, new), for a non-empty old: the occurrences of old are
\* replaced from the left, without overlap.
RECURSIVE str_replace(_, _, _)
str_replace(s, old, new) ==
    IF s = <<>> THEN <<>>
    ELSE IF Len(s) >= Len(old) /\ SubSeq(s, 1, Len(old)) = old
         THEN new \o str_replace(SubSeq(s, Len(old) + 1, Len(s)), old, new)
         ELSE <<s[1]>> \o str_replace(Tail(s), old, new)

(***************************************************************************)
(* The regular expression ansi_escape:                                     *)
(*     \x1B(?:[@-Z\\-_]|\[[0-?]*[ -/]*[@-~])                               *)
(***************************************************************************)
\* [@-Z\\-_]: '@' to 'Z' and '\' to '_'
FeBytes == CharRange("@", "Z") \cup CharRange("\\", "_")
\* [0-?]
ParamBytes == CharRange("0", "?")
\* [ -/]
IntermediateBytes == CharRange(" ", "/")
\* [@-~]
FinalBytes == CharRange("@", "~")

\* The first index from i on at which s has no character of class (a greedy
\* class*; the three classes of the CSI branch are disjoint, so backtracking
\* into a shorter repetition never finds a match the greedy one misses).
RECURSIVE SkipClass(_, _, _)
SkipClass(s, i, class) ==
    IF i <= Len(s) /\ s[i] \in class THEN SkipClass(s, i + 1, class) ELSE i

\* The length of the match of ansi_escape that starts at index i of s, 0 when
\* there is none.
ansi_escape_match(s, i) ==
    IF s[i] # ESC \/ i + 1 > Len(s) THEN 0
    ELSE IF s[i + 1] \in FeBytes THEN 2
    ELSE IF s[i + 1] = "["
         THEN LET j == SkipClass(s, i + 2, ParamBytes)
                  k == SkipClass(s, j, IntermediateBytes)
              IN  IF k <= Len(s) /\ s[k] \in FinalBytes THEN k - i + 1 ELSE 0
    ELSE 0

\* ansi_escape.sub('', s) from index i on: one pass from the left, each match
\* deleted, the scan going on after the match.
RECURSIVE ansi_escape_sub(_, _)
ansi_escape_sub(s, i) ==
    IF i > Len(s) THEN <<>>
    ELSE LET m == ansi_escape_match(s, i)
         IN  IF m > 0 THEN ansi_escape_sub(s, i + m)
             ELSE <<s[i]>> \o ansi_escape_sub(s, i + 1)

(***************************************************************************)
(* The functions of the module.                                            *)
(***************************************************************************)
\* is_sensitive_field without the lower-casing of field_name.
is_sensitive_field_NoLower(field_name) ==
    IF field_name.tag # "str" THEN Raise("AttributeError")
    ELSE ReturnBool(\E sensitive \in SENSITIVE_FIELDS :
                      Contains(field_name.s, sensitive))

is_sensitive_field(field_name) ==
    IF field_name.tag # "str" THEN Raise("AttributeError")
    ELSE LET field_lower == str_lower(field_name.s)
         IN  ReturnBool(\E sensitive \in SENSITIVE_FIELDS :
                            Contains(field_lower, sensitive))

\* mask_sensitive_value without the "not value" test of its first line.
mask_sensitive_value_NoFalsyTest(value, visible_chars) ==
    IF value.tag # "str" THEN Raise("TypeError")
    ELSE IF Len(value.s) <= visible_chars THEN ReturnStr(MASKED)
    ELSE ReturnStr(Repeat("*", Len(value.s) - visible_chars)
                   \o SliceFrom(value.s, -visible_chars))

mask_sensitive_value(value, visible_chars) ==
    IF ~Truthy(value) THEN ReturnStr(MASKED)
    ELSE IF value.tag # "str" THEN Raise("TypeError")
    ELSE IF Len(value.s) <= visible_chars THEN ReturnStr(MASKED)
    ELSE ReturnStr(Repeat("*", Len(value.s) - visible_chars)
                   \o SliceFrom(value.s, -visible_chars))

\* The replace calls without the last one, that of '\r'.
EscapeLineBreaks_NoCR(str_value) ==
    LET s1 == str_replace(str_value, <<CR, LF>>, <<"\\", "r", "\\", "n">>)
    IN  str_replace(s1, <<LF>>, <<"\\", "n">>)

\* The three replace calls: '\r\n', then '\n', then '\r'.
EscapeLineBreaks(str_value) ==
    LET s1 == str_replace(str_value, <<CR, LF>>, <<"\\", "r", "\\", "n">>)
        s2 == str_replace(s1, <<LF>>, <<"\\", "n">>)
    IN  str_replace(s2, <<CR>>, <<"\\", "r">>)

\* ansi_escape.sub('', str_value)
StripAnsi(str_value) == ansi_escape_sub(str_value, 1)

\* The truncation with >= in the place of >.
Truncate_AtLength(str_value, max_length) ==
    IF Len(str_value) >= max_length
    THEN SliceTo(str_value, max_length) \o TRUNCATED_SUFFIX
    ELSE str_value

\* The truncation to max_length.
Truncate(str_value, max_length) ==
    IF Len(str_value) > max_length
    THEN SliceTo(str_value, max_length) \o TRUNCATED_SUFFIX
    ELSE str_value

sanitize_for_logging(value, max_length) ==
    IF value.tag = "none" THEN ReturnStr(NONE_TEXT)
    ELSE ReturnStr(Truncate(StripAnsi(EscapeLineBreaks(py_str(value))), max_length))

sanitize_log_input(value) == sanitize_for_logging(value, DEFAULT_MAX_LENGTH)

\* get_safe_exception_message with str(exc) in the place of the type name in
\* the generic message.
get_safe_exception_message_EchoesMessage(exc, include_type) ==
    LET exc_type == TypeName(exc)
    IN  IF exc_type \in DOMAIN safe_messages THEN ReturnStr(safe_messages[exc_type])
        ELSE IF include_type
             THEN ReturnStr(GENERIC_WITH_TYPE_HEAD \o py_str(exc) \o GENERIC_WITH_TYPE_TAIL)
        ELSE ReturnStr(GENERIC_MESSAGE)

get_safe_exception_message(exc, include_type) ==
    LET exc_type == TypeName(exc)
    IN  IF exc_type \in DOMAIN safe_messages THEN ReturnStr(safe_messages[exc_type])
        ELSE IF include_type
             THEN ReturnStr(GENERIC_WITH_TYPE_HEAD \o exc_type \o GENERIC_WITH_TYPE_TAIL)
        ELSE ReturnStr(GENERIC_MESSAGE)

create_generic_error_response(detail) ==
    ReturnDict(IF Truthy(detail) THEN detail ELSE StrV(DEFAULT_DETAIL))

(***************************************************************************)
(* The inputs.                                                             *)
(***************************************************************************)
\* The longest string drawn over Alphabet.
MaxLen == 4
\* The ints drawn are -MaxInt..MaxInt.
MaxInt == 12
\* The longest prefix and suffix put around a field name.
MaxAffix == 1

\* The line breaks, ESC, the CSI introducer, a byte that is both an Fe byte
\* and a final byte, and a parameter byte.
Alphabet == {LF, CR, ESC, "[", "A", "1"}

SeqsUpTo(S, n) == UNION {[1..k -> S] : k \in 0..n}

Strs == SeqsUpTo(Alphabet, MaxLen)

\* 'username', 'author', 'pass', 'tokn'
USERNAME == <<"u", "s", "e", "r", "n", "a", "m", "e">>
PlainNames ==
    {USERNAME, <<"a", "u", "t", "h", "o", "r">>, <<"p", "a", "s", "s">>,
     <<"t", "o", "k", "n">>, <<>>}

\* s.capitalize() of a lower-case s
Capitalized(s) == [i \in 1..Len(s) |-> IF i = 1 THEN UpperChar(s[i]) ELSE s[i]]

\* Field names: a sensitive name in lower case, in upper case or capitalized,
\* or a plain name, between a prefix and a suffix.
FieldNames ==
    {pre \o core \o suf :
        pre \in SeqsUpTo({"_", "X"}, MaxAffix),
        core \in SENSITIVE_FIELDS \cup {str_upper(w) : w \in SENSITIVE_FIELDS}
                 \cup {Capitalized(w) : w \in SENSITIVE_FIELDS} \cup PlainNames,
        suf \in SeqsUpTo({"_", "X"}, MaxAffix)}

\* 'boom'
BOOM == <<"b", "o", "o", "m">>
ExcKinds == DOMAIN safe_messages \cup {ValueError, RuntimeError}
ExcMessages == SeqsUpTo(Alphabet, 1) \cup {BOOM, USERNAME}

Values ==
    {None} \cup {IntV(n) : n \in (-MaxInt)..MaxInt}
    \cup {StrV(s) : s \in Strs \cup FieldNames}
    \cup {ExcV(k, m) : k \in ExcKinds, m \in ExcMessages}

VisibleCharsInputs == (-1)..(MaxLen + 1) \cup {DEFAULT_VISIBLE_CHARS}
MaxLengthInputs == (-1)..(MaxLen + 1)

(***************************************************************************)
(* The state: one call.  fn is the function called ("" before the call),   *)
(* value its first argument, num its integer argument (visible_chars or    *)
(* max_length), flag its include_type, ret what the call gave.             *)
(***************************************************************************)
VARIABLES fn, value, num, flag, ret

vars == <<fn, value, num, flag, ret>>

Init ==
    /\ fn = ""
    /\ value \in Values
    /\ num = 0
    /\ flag = TRUE
    /\ ret = Raise("")

Call_is_sensitive_field ==
    /\ fn = ""
    /\ fn' = "is_sensitive_field"
    /\ ret' = is_sensitive_field(value)
    /\ UNCHANGED <<value, num, flag>>

Call_mask_sensitive_value ==
    /\ fn = ""
    /\ \E visible_chars \in VisibleCharsInputs :
          /\ num' = visible_chars
          /\ ret' = mask_sensitive_value(value, visible_chars)
    /\ fn' = "mask_sensitive_value"
    /\ UNCHANGED <<value, flag>>

Call_sanitize_for_logging ==
    /\ fn = ""
    /\ \E max_length \in MaxLengthInputs :
          /\ num' = max_length
          /\ ret' = sanitize_for_logging(value, max_length)
    /\ fn' = "sanitize_for_logging"
    /\ UNCHANGED <<value, flag>>

Call_sanitize_log_input ==
    /\ fn = ""
    /\ fn' = "sanitize_log_input"
    /\ num' = DEFAULT_MAX_LENGTH
    /\ ret' = sanitize_log_input(value)
    /\ UNCHANGED <<value, flag>>

Call_get_safe_exception_message ==
    /\ fn = ""
    /\ \E include_type \in BOOLEAN :
          /\ flag' = include_type
          /\ ret' = get_safe_exception_message(value, include_type)
    /\ fn' = "get_safe_exception_message"
    /\ UNCHANGED <<value, num>>

Call_create_generic_error_response ==
    /\ fn = ""
    /\ fn' = "create_generic_error_response"
    /\ ret' = create_generic_error_response(value)
    /\ UNCHANGED <<value, num, flag>>

Next ==
    \/ Call_is_sensitive_field
    \/ Call_mask_sensitive_value
    \/ Call_sanitize_for_logging
    \/ Call_sanitize_log_input
    \/ Call_get_safe_exception_message
    \/ Call_create_generic_error_response

Spec == Init /\ [][Next]_vars

(***************************************************************************)
(* Properties.                                                             *)
(***************************************************************************)
Sanitizers == {"sanitize_for_logging", "sanitize_log_input"}

\* The form of the value that the truncation step receives: its string form
\* after the line-break escaping and the ANSI stripping.
SanitizedForm(v) == StripAnsi(EscapeLineBreaks(py_str(v)))

\* C1: for every value and every max_length >= 0 the string returned by
\* sanitize_for_logging holds no raw line feed and no raw carriage return.
C1_NoRawLineBreak ==
    (fn \in Sanitizers /\ num >= 0) =>
        /\ ret.raised = ""
        /\ \A i \in 1..Len(ret.str) : ret.str[i] \notin {LF, CR}

\* A string with a line feed and a carriage return was sanitized and both
\* escape texts are in the result.
C1_Witness ==
    /\ fn = "sanitize_for_logging"
    /\ num >= 0
    /\ value.tag = "str"
    /\ \E i, j \in 1..Len(value.s) : value.s[i] = LF /\ value.s[j] = CR
    /\ Contains(ret.str, <<"\\", "n">>)
    /\ Contains(ret.str, <<"\\", "r">>)

\* C2: the string returned by sanitize_for_logging holds no substring that
\* matches the escape pattern, whatever the input; stated here for the
\* results that are not truncated (max_length >= 0 and no suffix added), the
\* case in which only the stripping decides.
C2_NoEscapeSequenceLeft ==
    (fn \in Sanitizers /\ num >= 0 /\ Len(SanitizedForm(value)) <= num) =>
        \A i \in 1..Len(ret.str) : ansi_escape_match(ret.str, i) = 0

\* C3 as claimed: for every value and every max_length, with s the sanitized
\* form of the value, the result is the first max_length characters of s and
\* the suffix (max_length + 14 characters) when len(s) > max_length, and s
\* otherwise.
C3_TruncationForEveryInput ==
    fn = "sanitize_for_logging" =>
        LET s == SanitizedForm(value)
        IN  IF Len(s) > num
            THEN /\ ret.str = SubSeq(s, 1, num) \o TRUNCATED_SUFFIX
                 /\ Len(ret.str) = num + 14
            ELSE ret.str = s

\* C3 as amended: the same for every value but None and every
\* max_length >= 0; for None the result is 'None' whatever max_length is.
C3_Truncation ==
    fn = "sanitize_for_logging" =>
        /\ (value.tag # "none" /\ num >= 0) =>
              LET s == SanitizedForm(value)
              IN  IF Len(s) > num
                  THEN /\ ret.str = SubSeq(s, 1, num) \o TRUNCATED_SUFFIX
                       /\ Len(ret.str) = num + 14
                  ELSE ret.str = s
        /\ value.tag = "none" => ret.str = NONE_TEXT

\* A string whose sanitized form is longer than max_length = 2 was truncated.
C3_Witness ==
    /\ fn = "sanitize_for_logging"
    /\ value.tag = "str"
    /\ num = 2
    /\ Len(SanitizedForm(value)) > 2
    /\ Len(ret.str) = 16

\* C4: the length of the string returned by sanitize_for_logging is at most
\* max_length; stated here for max_length >= 0.
C4_LengthAtMostMaxLength ==
    (fn \in Sanitizers /\ num >= 0) => Len(ret.str) <= num

\* C5: for every string and every visible_chars >= 0, mask_sensitive_value
\* returns '****' when the string is empty or no longer than visible_chars,
\* and otherwise len - visible_chars asterisks and the last visible_chars
\* characters: as long as the string, showing at most visible_chars of it.
C5_MaskKeepsLastVisibleChars ==
    (fn = "mask_sensitive_value" /\ value.tag = "str" /\ num >= 0) =>
        LET s == value.s
        IN  IF s = <<>> \/ Len(s) <= num THEN ret.str = MASKED
            ELSE /\ Len(ret.str) = Len(s)
                 /\ \A i \in 1..Len(s) :
                       ret.str[i] = IF i <= Len(s) - num THEN "*" ELSE s[i]

\* C6: the result of get_safe_exception_message is decided by the kind name
\* of the exception and include_type alone: the table's message for a listed
\* kind, the generic message with the kind name for an unlisted kind and
\* include_type, the generic message without it otherwise; the exception's
\* own message is never in it.
C6_SafeMessageByKindOnly ==
    fn = "get_safe_exception_message" =>
        LET kind == TypeName(value)
        IN  /\ ret.raised = ""
            /\ ret.str =
                  IF kind \in DOMAIN safe_messages THEN safe_messages[kind]
                  ELSE IF flag
                       THEN GENERIC_WITH_TYPE_HEAD \o kind \o GENERIC_WITH_TYPE_TAIL
                  ELSE GENERIC_MESSAGE
            /\ (kind = TimeoutError) =>
                  ret.str = <<"T", "h", "e", " ", "o", "p", "e", "r", "a", "t",
                              "i", "o", "n", " ", "t", "i", "m", "e", "d", " ",
                              "o", "u", "t", ".">>
            /\ (value.tag = "exc" /\ value.s = BOOM) => ~Contains(ret.str, BOOM)
            /\ (kind \notin DOMAIN safe_messages /\ ~flag) => ~Contains(ret.str, kind)

\* An exception of an unlisted kind with the message 'boom' was given with
\* include_type, and the result names the kind.
C6_Witness ==
    /\ fn = "get_safe_exception_message"
    /\ value = ExcV(ValueError, BOOM)
    /\ flag
    /\ Contains(ret.str, ValueError)

\* Two characters that are the same letter in any case, or the same character.
SameIgnoringCase(a, b) ==
    \/ a = b
    \/ a \in UpperCaseLetters /\ b \in LowerCaseLetters /\ Ord(a) + 32 = Ord(b)
    \/ a \in LowerCaseLetters /\ b \in UpperCaseLetters /\ Ord(b) + 32 = Ord(a)

\* w occurs in s, the case of the letters ignored.
OccursIgnoringCase(s, w) ==
    \E i \in 0..(Len(s) - Len(w)) :
        \A j \in 1..Len(w) : SameIgnoringCase(s[i + j], w[j])

\* C7: for every string field_name, is_sensitive_field returns true exactly
\* when a member of the sensitive-field set occurs in field_name, the case of
\* the letters ignored; false for the empty string and for 'username'.
C7_SensitiveIffMemberOccurs ==
    (fn = "is_sensitive_field" /\ value.tag = "str") =>
        /\ ret.raised = ""
        /\ ret.bool = (\E w \in SENSITIVE_FIELDS : OccursIgnoringCase(value.s, w))
        /\ value.s \in {<<>>, USERNAME} => ~ret.bool

\* A field name that holds 'TOKEN' in upper case, and no sensitive name in
\* lower case, was found sensitive.
C7_Witness ==
    /\ fn = "is_sensitive_field"
    /\ value.tag = "str"
    /\ Contains(value.s, <<"T", "O", "K", "E", "N">>)
    /\ \A w \in SENSITIVE_FIELDS : ~Contains(value.s, w)
    /\ ret.bool

\* C8: create_generic_error_response returns the explicit detail unchanged,
\* for every detail string, the empty one too, and the default message only
\* when no detail is given.
C8_ExplicitDetailUnchanged ==
    fn = "create_generic_error_response" =>
        /\ ret.type = "dict"
        /\ value.tag = "str" => ret.detail = value
        /\ value.tag = "none" => ret.detail = StrV(DEFAULT_DETAIL)

\* The int that a decimal text denotes: digits, after an optional '-'.
RECURSIVE DecimalValue(_)
DecimalValue(s) ==
    IF s = <<>> THEN 0
    ELSE IF s[1] = "-" THEN -DecimalValue(Tail(s))
    ELSE 10 * DecimalValue(SubSeq(s, 1, Len(s) - 1)) + (Ord(s[Len(s)]) - Ord("0"))

IsDecimal(s) ==
    /\ s # <<>>
    /\ \A i \in 1..Len(s) : s[i] \in CharRange("0", "9") \/ (i = 1 /\ s[i] = "-")
    /\ s # <<"-">>

\* C9 as claimed: no function of the module raises, whatever value it is
\* given; sanitize_for_logging(None) is 'None' and an int is stringified.
C9_NoFunctionRaises ==
    fn # "" =>
        /\ ret.raised = ""
        /\ (fn \in Sanitizers /\ value.tag = "none") => ret.str = NONE_TEXT
        /\ (fn = "sanitize_log_input" /\ value.tag = "int") =>
              IsDecimal(ret.str) /\ DecimalValue(ret.str) = value.n

\* C9 as amended: sanitize_for_logging, sanitize_log_input,
\* get_safe_exception_message and create_generic_error_response return for
\* every value; is_sensitive_field returns for a str and raises AttributeError
\* for any other value; mask_sensitive_value returns for a str and for a falsy
\* value (None, 0) and raises TypeError for any other value;
\* sanitize_for_logging(None) is 'None' and an int is stringified.
C9_RaisesOnlyOnNonStrings ==
    /\ fn \in Sanitizers \cup {"get_safe_exception_message",
                               "create_generic_error_response"} =>
          ret.raised = ""
    /\ fn = "is_sensitive_field" =>
          ret.raised = IF value.tag = "str" THEN "" ELSE "AttributeError"
    /\ fn = "mask_sensitive_value" =>
          ret.raised = IF value.tag = "str" \/ value \in {None, IntV(0)}
                       THEN "" ELSE "TypeError"
    /\ (fn = "mask_sensitive_value" /\ value \in {None, IntV(0)}) =>
          ret.str = MASKED
    /\ (fn \in Sanitizers /\ value.tag = "none") => ret.str = NONE_TEXT
    /\ (fn = "sanitize_log_input" /\ value.tag = "int") =>
          IsDecimal(ret.str) /\ DecimalValue(ret.str) = value.n

\* is_sensitive_field was given None and raised AttributeError.
C9_Witness ==
    /\ fn = "is_sensitive_field"
    /\ value = None
    /\ ret.raised = "AttributeError"

\* The line breaks of s, in order.
LineBreaksOf(s) == SelectSeq(s, LAMBDA c : c \in {LF, CR})

\* The line breaks that the escape texts of r stand for, in order: LF for
\* each backslash-n and CR for each backslash-r.
RECURSIVE EscapeTextsOf(_)
EscapeTextsOf(r) ==
    IF Len(r) < 2 THEN <<>>
    ELSE IF r[1] = "\\" /\ r[2] = "n" THEN <<LF>> \o EscapeTextsOf(SubSeq(r, 3, Len(r)))
    ELSE IF r[1] = "\\" /\ r[2] = "r" THEN <<CR>> \o EscapeTextsOf(SubSeq(r, 3, Len(r)))
    ELSE EscapeTextsOf(Tail(r))

\* C10: when the sanitized form is not truncated, the escape texts of the
\* result are those of the line breaks of the input, each one there, in the
\* order of the input: the stripping deletes or damages none.  (No input of
\* the model holds a backslash, so every backslash of a result comes from
\* the escaping.)
C10_LineBreaksEscapedInOrder ==
    (fn \in Sanitizers /\ value.tag = "str" /\ num >= 0
        /\ Len(SanitizedForm(value)) <= num) =>
        EscapeTextsOf(ret.str) = LineBreaksOf(value.s)
====
